---- MODULE Spec2Model ----
(***************************************************************************)
(* The expression evaluator of Cozo (src/data/eval.rs): partial            *)
(* evaluation against a symbolic context, operator optimisation and row    *)
(* evaluation against a row context, over the Value / Expr algebra.        *)
(*                                                                         *)
(* Every evaluator call returns an outcome record                          *)
(*     [st, out, err, log]                                                 *)
(* st  : "ok" (Ok(..)), "err" (Err(EvalError)), "panic" (unwrap on None,   *)
(*       todo!()).                                                         *)
(* out : the Expr or Value returned when st = "ok".                        *)
(* err : the EvalError variant when st = "err".                            *)
(* log : the observable calls made, in order: op.eval invocations and      *)
(*       context lookups.                                                  *)
(***************************************************************************)
EXTENDS Integers, Sequences, FiniteSets, TLC

----------------------------------------------------------------------------
(* Bounds of the explored input space.                                     *)

\* Int literals range over 0..MaxInt.
MaxInt == 1
\* Longest argument list of an n-ary And / Or / Coalesce application.
MaxArgs == 3
\* Largest index of an IdxAcc node; lists hold up to MaxIdx elements.
MaxIdx == 2
\* Largest number of (match, branch) arms between scrutinee and default.
MaxArms == 2

----------------------------------------------------------------------------
(* Values (crate::data::value::Value).  Text is a sequence of character   *)
(* codes; Dict is a function from keys to values.                          *)

NullV == [t |-> "Null"]
BoolV(b) == [t |-> "Bool", b |-> b]
IntV(n) == [t |-> "Int", n |-> n]
TextV(s) == [t |-> "Text", s |-> s]
ListV(l) == [t |-> "List", l |-> l]
DictV(d) == [t |-> "Dict", d |-> d]

\* The empty map.
EmptyMap == [k \in {} |-> NullV]

\* BTreeMap iterates its keys in ascending order; the keys in use, ascending.
KeyOrder == <<"f", "g", "h">>

\* The keys of map d in BTreeMap iteration order.
RECURSIVE KeysFrom(_, _)
KeysFrom(d, i) ==
    IF i > Len(KeyOrder) THEN <<>>
    ELSE IF KeyOrder[i] \in DOMAIN d
         THEN <<KeyOrder[i]>> \o KeysFrom(d, i + 1)
         ELSE KeysFrom(d, i + 1)

SortedKeys(d) == KeysFrom(d, 1)

----------------------------------------------------------------------------
(* Expressions (crate::data::expr::Expr).                                  *)

Const(v) == [tag |-> "Const", v |-> v]
Variable(n) == [tag |-> "Variable", name |-> n]
TableCol(tid, cid) == [tag |-> "TableCol", tid |-> tid, cid |-> cid]
TupleSetIdx(i) == [tag |-> "TupleSetIdx", idx |-> i]
List(l) == [tag |-> "List", l |-> l]
Dict(d) == [tag |-> "Dict", d |-> d]
Apply(op, args) == [tag |-> "Apply", op |-> op, args |-> args]
ApplyAgg(op, a_args, args) ==
    [tag |-> "ApplyAgg", op |-> op, a_args |-> a_args, args |-> args]
FieldAcc(f, arg) == [tag |-> "FieldAcc", f |-> f, arg |-> arg]
IdxAcc(i, arg) == [tag |-> "IdxAcc", i |-> i, arg |-> arg]
IfExpr(cond, if_part, else_part) ==
    [tag |-> "IfExpr", cond |-> cond, if_part |-> if_part, else_part |-> else_part]
SwitchExpr(pairs) == [tag |-> "SwitchExpr", pairs |-> pairs]
\* The specialized nodes: Add(..) .. Le(..), Coalesce, Or, And hold a pair,
\* Not, Minus, IsNull, NotNull hold one child.
Bin(tag, a, b) == [tag |-> tag, a |-> a, b |-> b]
Un(tag, a) == [tag |-> tag, a |-> a]

\* Operator names (crate::data::op NAME_OP_*).
BinOpNames ==
    {"Add", "Sub", "Mul", "Div", "Pow", "Mod", "StrCat",
     "Eq", "Ne", "Gt", "Ge", "Lt", "Le"}
UnOpNames == {"Not", "Minus", "IsNull", "NotNull"}
LogicOpNames == {"Coalesce", "Or", "And"}
SpecializedNames == BinOpNames \cup UnOpNames \cup LogicOpNames

----------------------------------------------------------------------------
(* Outcomes.                                                               *)

Ok(x, log) == [st |-> "ok", out |-> x, err |-> "", log |-> log]
Err(kind, log) == [st |-> "err", out |-> NullV, err |-> kind, log |-> log]
Panic(log) == [st |-> "panic", out |-> NullV, err |-> "", log |-> log]
\* Outcome r with the earlier log put in front.
After(log, r) == [r EXCEPT !.log = log \o @]

EvEval(op) == [ev |-> "eval", op |-> op]
EvResolve(kind, key) == [ev |-> "resolve", kind |-> kind, key |-> key]

----------------------------------------------------------------------------
(* Operator registry (crate::data::op): name, arity, non_null_args, eval.  *)

\* op.arity(): {n} for Some(n), {} for None (variadic).
OpArity(op) ==
    IF op \in BinOpNames THEN {2}
    ELSE IF op \in UnOpNames THEN {1}
    ELSE {}

\* op.non_null_args(): a Null operand forces a Null result without eval.
OpNonNullArgs(op) == op \in BinOpNames \cup {"Not", "Minus"}

\* Integer division truncating toward zero, and its remainder.
Abs(n) == IF n < 0 THEN 0 - n ELSE n
TruncDiv(a, b) ==
    IF (a < 0) = (b < 0) THEN Abs(a) \div Abs(b) ELSE 0 - (Abs(a) \div Abs(b))
TruncRem(a, b) == a - b * TruncDiv(a, b)

RECURSIVE IntPow(_, _)
IntPow(a, b) == IF b = 0 THEN 1 ELSE a * IntPow(a, b - 1)

\* Lexicographic order on texts.
RECURSIVE TextLt(_, _)
TextLt(s, u) ==
    IF u = <<>> THEN FALSE
    ELSE IF s = <<>> THEN TRUE
    ELSE IF Head(s) # Head(u) THEN Head(s) < Head(u)
    ELSE TextLt(Tail(s), Tail(u))

\* The total order on identically-typed scalar operands.
ValLt(a, b) ==
    CASE a.t = "Int" -> a.n < b.n
      [] a.t = "Text" -> TextLt(a.s, b.s)
      [] a.t = "Bool" -> (~a.b) /\ b.b

Ordered(a, b) == a.t = b.t /\ a.t \in {"Int", "Text", "Bool"}

\* eval_two_non_null of the binary operators.
EvalTwoNonNull(op, a, b) ==
    LET ints == a.t = "Int" /\ b.t = "Int"
        mismatch == Err("OpTypeMismatch", <<>>)
    IN CASE op = "Add" -> IF ints THEN Ok(IntV(a.n + b.n), <<>>) ELSE mismatch
         [] op = "Sub" -> IF ints THEN Ok(IntV(a.n - b.n), <<>>) ELSE mismatch
         [] op = "Mul" -> IF ints THEN Ok(IntV(a.n * b.n), <<>>) ELSE mismatch
         [] op = "Div" ->
              IF ints /\ b.n # 0 THEN Ok(IntV(TruncDiv(a.n, b.n)), <<>>)
              ELSE mismatch
         [] op = "Mod" ->
              IF ints /\ b.n # 0 THEN Ok(IntV(TruncRem(a.n, b.n)), <<>>)
              ELSE mismatch
         [] op = "Pow" ->
              IF ints /\ b.n >= 0 THEN Ok(IntV(IntPow(a.n, b.n)), <<>>)
              ELSE mismatch
         [] op = "StrCat" ->
              IF a.t = "Text" /\ b.t = "Text" THEN Ok(TextV(a.s \o b.s), <<>>)
              ELSE mismatch
         [] op = "Eq" -> IF a.t = b.t THEN Ok(BoolV(a = b), <<>>) ELSE mismatch
         [] op = "Ne" -> IF a.t = b.t THEN Ok(BoolV(a # b), <<>>) ELSE mismatch
         [] op = "Gt" ->
              IF Ordered(a, b) THEN Ok(BoolV(ValLt(b, a)), <<>>) ELSE mismatch
         [] op = "Ge" ->
              IF Ordered(a, b) THEN Ok(BoolV(~ValLt(a, b)), <<>>) ELSE mismatch
         [] op = "Lt" ->
              IF Ordered(a, b) THEN Ok(BoolV(ValLt(a, b)), <<>>) ELSE mismatch
         [] op = "Le" ->
              IF Ordered(a, b) THEN Ok(BoolV(~ValLt(b, a)), <<>>) ELSE mismatch

\* eval_one_non_null of Not and Minus.
EvalOneNonNull(op, a) ==
    CASE op = "Not" ->
           IF a.t = "Bool" THEN Ok(BoolV(~a.b), <<>>)
           ELSE Err("OpTypeMismatch", <<>>)
      [] op = "Minus" ->
           IF a.t = "Int" THEN Ok(IntV(0 - a.n), <<>>)
           ELSE Err("OpTypeMismatch", <<>>)

\* eval_one of the null-tolerant IsNull and NotNull.
EvalOne(op, a) ==
    CASE op = "IsNull" -> Ok(BoolV(a = NullV), <<>>)
      [] op = "NotNull" -> Ok(BoolV(a # NullV), <<>>)

\* Three-valued conjunction / disjunction of realized values, and coalesce.
AllLogical(vals) == \A i \in 1..Len(vals) : vals[i].t \in {"Bool", "Null"}
AndValues(vals) ==
    IF ~AllLogical(vals) THEN Err("OpTypeMismatch", <<>>)
    ELSE IF \E i \in 1..Len(vals) : vals[i] = BoolV(FALSE) THEN Ok(BoolV(FALSE), <<>>)
    ELSE IF \E i \in 1..Len(vals) : vals[i] = NullV THEN Ok(NullV, <<>>)
    ELSE Ok(BoolV(TRUE), <<>>)
OrValues(vals) ==
    IF ~AllLogical(vals) THEN Err("OpTypeMismatch", <<>>)
    ELSE IF \E i \in 1..Len(vals) : vals[i] = BoolV(TRUE) THEN Ok(BoolV(TRUE), <<>>)
    ELSE IF \E i \in 1..Len(vals) : vals[i] = NullV THEN Ok(NullV, <<>>)
    ELSE Ok(BoolV(FALSE), <<>>)
RECURSIVE CoalesceValues(_)
CoalesceValues(vals) ==
    IF vals = <<>> THEN Ok(NullV, <<>>)
    ELSE IF Head(vals) # NullV THEN Ok(Head(vals), <<>>)
    ELSE CoalesceValues(Tail(vals))

\* op.eval(args) over fully realized values; the call is logged.
OpEval(op, vals) ==
    After(<<EvEval(op)>>,
          IF OpArity(op) # {} /\ OpArity(op) # {Len(vals)}
          THEN Err("ArityMismatch", <<>>)
          ELSE IF op \in BinOpNames THEN
              IF vals[1] = NullV \/ vals[2] = NullV THEN Ok(NullV, <<>>)
              ELSE EvalTwoNonNull(op, vals[1], vals[2])
          ELSE IF op \in {"Not", "Minus"} THEN
              IF vals[1] = NullV THEN Ok(NullV, <<>>)
              ELSE EvalOneNonNull(op, vals[1])
          ELSE IF op \in {"IsNull", "NotNull"} THEN EvalOne(op, vals[1])
          ELSE IF op = "And" THEN AndValues(vals)
          ELSE IF op = "Or" THEN OrValues(vals)
          ELSE CoalesceValues(vals))

----------------------------------------------------------------------------
(* Contexts.                                                               *)

\* ExprEvalContext: vars maps the resolvable names to expressions, cols maps
\* the resolvable <<binding, field>> pairs to <<table_id, col_id>>.
UnitExprCtx == [vars |-> EmptyMap, cols |-> EmptyMap]

\* RowEvalContext: slots maps the resolvable TupleSetIdx to values.
UnitRowCtx == [slots |-> EmptyMap]

\* ctx.resolve(key) of the symbolic context: the set holding the expression,
\* empty for None.
Resolve(ctx, key) ==
    IF key \in DOMAIN ctx.vars THEN {ctx.vars[key]} ELSE {}

\* ctx.resolve_table_col(binding, col): the set holding <<tid, cid>>, or {}.
ResolveTableCol(ctx, binding, col) ==
    IF <<binding, col>> \in DOMAIN ctx.cols THEN {ctx.cols[<<binding, col>>]} ELSE {}

\* ctx.resolve(idx) of the row context.
RowResolve(ctx, idx) ==
    IF idx \in DOMAIN ctx.slots
    THEN Ok(ctx.slots[idx], <<EvResolve("slot", idx)>>)
    ELSE Err("UnresolveTupleIdx", <<EvResolve("slot", idx)>>)

IsConst(e) == e.tag = "Const"
IsConstNull(e) == e.tag = "Const" /\ e.v = NullV

\* The map with key k removed is not needed by the callers: d.remove(k)
\* hands back the entry, the rest of the map is dropped.
MapRemove(d, k, default) == IF k \in DOMAIN d THEN d[k] ELSE default

\* Vec::swap_remove(i): the element at index i (0-based); the vector is
\* dropped afterwards.
SwapRemove(l, i) == l[i + 1]

\* The map over keys ks (a sequence) with the values vs, position by position.
MapOf(ks, vs) ==
    [k \in {ks[i] : i \in 1..Len(ks)} |->
        vs[CHOOSE i \in 1..Len(ks) : ks[i] = k]]

\* The values of map d in key order.
MapValues(d) == [i \in 1..Len(SortedKeys(d)) |-> d[SortedKeys(d)[i]]]

----------------------------------------------------------------------------
(* Expr::partial_eval.                                                     *)

RECURSIVE partial_eval(_, _)
RECURSIVE PartialEvalAll(_, _)
RECURSIVE PartialEvalApplyArgs(_, _, _, _)
RECURSIVE PartialEvalLogicArgs(_, _, _, _)
RECURSIVE PartialEvalSwitchArms(_, _, _, _)

\* l.into_iter().map(|v| v.partial_eval(ctx)).collect::<Result<Vec<_>>>():
\* left to right, stopping at the first error.
PartialEvalAll(es, ctx) ==
    IF Len(es) = 0 THEN Ok(<<>>, <<>>)
    ELSE LET h == partial_eval(Head(es), ctx)
         IN IF h.st # "ok" THEN h
            ELSE LET t == PartialEvalAll(Tail(es), ctx)
                 IN IF t.st # "ok" THEN After(h.log, t)
                    ELSE Ok(<<h.out>> \o t.out, h.log \o t.log)

PartialEvalList(e, ctx) ==
    LET r == PartialEvalAll(e.l, ctx)
    IN IF r.st # "ok" THEN r ELSE Ok(List(r.out), r.log)

PartialEvalDict(e, ctx) ==
    LET r == PartialEvalAll(MapValues(e.d), ctx)
    IN IF r.st # "ok" THEN r
       ELSE Ok(Dict(MapOf(SortedKeys(e.d), r.out)), r.log)

PartialEvalVariable(e, ctx) ==
    LET ev == <<EvResolve("var", e.name)>>
    IN IF Resolve(ctx, e.name) = {} THEN Err("UnresolvedVariable", ev)
       ELSE Ok(CHOOSE x \in Resolve(ctx, e.name) : TRUE, ev)

\* The match on the partially evaluated argument of a FieldAcc.
FieldAccOn(f, expr, log) ==
    IF IsConstNull(expr) THEN Ok(Const(NullV), log)
    ELSE IF IsConst(expr) /\ expr.v.t = "Dict"
         THEN Ok(Const(MapRemove(expr.v.d, f, NullV)), log)
    ELSE IF expr.tag \in {"IdxAcc", "FieldAcc", "TableCol", "Apply", "ApplyAgg"}
         THEN Ok(FieldAcc(f, expr), log)
    ELSE IF expr.tag = "Dict" THEN Ok(MapRemove(expr.d, f, Const(NullV)), log)
    ELSE Err("FieldAccess", log)

PartialEvalFieldAcc(e, ctx) ==
    LET f == e.f
        arg == e.arg
    IN IF arg.tag = "Variable" THEN
           LET tc == ResolveTableCol(ctx, arg.name, f)
               ev1 == <<EvResolve("col", arg.name)>>
               ev2 == ev1 \o <<EvResolve("var", arg.name)>>
           IN IF tc # {} THEN
                  LET p == CHOOSE x \in tc : TRUE
                  IN Ok(TableCol(p[1], p[2]), ev1)
              ELSE IF Resolve(ctx, arg.name) = {}
                   THEN Err("UnresolvedVariable", ev2)
              ELSE LET r == After(ev2,
                                  partial_eval(CHOOSE x \in Resolve(ctx, arg.name) : TRUE,
                                               ctx))
                   IN IF r.st # "ok" THEN r ELSE FieldAccOn(f, r.out, r.log)
       ELSE LET r == partial_eval(arg, ctx)
            IN IF r.st # "ok" THEN r ELSE FieldAccOn(f, r.out, r.log)

\* A variant of IdxAccOn that takes the last element of the list.
IdxAccOn_LastElement(i, arg, log) ==
    IF IsConstNull(arg) THEN Ok(Const(NullV), log)
    ELSE IF IsConst(arg) /\ arg.v.t = "List" THEN
        IF i >= Len(arg.v.l) THEN Ok(Const(NullV), log)
        ELSE Ok(Const(arg.v.l[Len(arg.v.l)]), log)
    ELSE IF arg.tag = "List" THEN
        IF i >= Len(arg.l) THEN Ok(Const(NullV), log)
        ELSE Ok(arg.l[Len(arg.l)], log)
    ELSE IF arg.tag \in {"IdxAcc", "FieldAcc", "TableCol", "Apply", "ApplyAgg"}
         THEN Ok(IdxAcc(i, arg), log)
    ELSE Err("IndexAccess", log)

\* The match on the partially evaluated argument of an IdxAcc.
IdxAccOn(i, arg, log) ==
    IF IsConstNull(arg) THEN Ok(Const(NullV), log)
    ELSE IF IsConst(arg) /\ arg.v.t = "List" THEN
        IF i >= Len(arg.v.l) THEN Ok(Const(NullV), log)
        ELSE Ok(Const(SwapRemove(arg.v.l, i)), log)
    ELSE IF arg.tag = "List" THEN
        IF i >= Len(arg.l) THEN Ok(Const(NullV), log)
        ELSE Ok(SwapRemove(arg.l, i), log)
    ELSE IF arg.tag \in {"IdxAcc", "FieldAcc", "TableCol", "Apply", "ApplyAgg"}
         THEN Ok(IdxAcc(i, arg), log)
    ELSE Err("IndexAccess", log)

PartialEvalIdxAcc(e, ctx) ==
    LET r == partial_eval(e.arg, ctx)
    IN IF r.st # "ok" THEN r ELSE IdxAccOn(e.i, r.out, r.log)

\* The values of a sequence of Const nodes.
ConstValues(es) == [i \in 1..Len(es) |-> es[i].v]

\* A variant of ApplyArgStep without the early return on Const(Null).
ApplyArgStep_NoNullCheck(op, acc, v) ==
    IF ~IsConst(v) THEN [acc EXCEPT !.has_unevaluated = TRUE]
    ELSE [acc EXCEPT !.eval_args = Append(@, v)]

\* One turn of the argument loop of the generic Apply branch: acc holds
\* has_unevaluated, eval_args and ret (the early return Ok(Const(Null))).
ApplyArgStep(op, acc, v) ==
    IF ~IsConst(v) THEN [acc EXCEPT !.has_unevaluated = TRUE]
    ELSE IF OpNonNullArgs(op) /\ IsConstNull(v) THEN [acc EXCEPT !.ret = TRUE]
    ELSE [acc EXCEPT !.eval_args = Append(@, v)]

\* After the loop: the residual Apply, or op.eval over the constants.
ApplyFinish(op, acc) ==
    IF acc.has_unevaluated THEN Ok(Apply(op, acc.eval_args), acc.log)
    ELSE LET r == After(acc.log, OpEval(op, ConstValues(acc.eval_args)))
         IN IF r.st # "ok" THEN r ELSE Ok(Const(r.out), r.log)

PartialEvalApplyArgs(op, rest, ctx, acc) ==
    IF Len(rest) = 0 THEN ApplyFinish(op, acc)
    ELSE LET v == After(acc.log, partial_eval(Head(rest), ctx))
         IN IF v.st # "ok" THEN v
            ELSE LET nxt == ApplyArgStep(op, [acc EXCEPT !.log = v.log], v.out)
                 IN IF nxt.ret THEN Ok(Const(NullV), nxt.log)
                    ELSE PartialEvalApplyArgs(op, Tail(rest), ctx, nxt)

\* partial_eval_and / partial_eval_or / partial_eval_coalesce: the operands
\* are partially evaluated left to right.  While every operand so far is a
\* constant, a constant that determines the result (false for And, true for
\* Or, non-null for Coalesce) is returned at once and the remaining operands
\* are not evaluated.  A non-logical constant operand of And / Or is an
\* OpTypeMismatch.  With a residual operand the application is returned with
\* all operands preserved; without one the three-valued result is returned.
Decides(op, v) ==
    CASE op = "And" -> v = BoolV(FALSE)
      [] op = "Or" -> v = BoolV(TRUE)
      [] op = "Coalesce" -> v # NullV

LogicValues(op, vals) ==
    CASE op = "And" -> AndValues(vals)
      [] op = "Or" -> OrValues(vals)
      [] op = "Coalesce" -> CoalesceValues(vals)

PartialEvalLogicArgs(op, rest, ctx, acc) ==
    IF Len(rest) = 0 THEN
        IF \E i \in 1..Len(acc.collected) : ~IsConst(acc.collected[i])
        THEN Ok(Apply(op, acc.collected), acc.log)
        ELSE LET r == LogicValues(op, ConstValues(acc.collected))
             IN IF r.st # "ok" THEN After(acc.log, r) ELSE Ok(Const(r.out), acc.log)
    ELSE LET v == After(acc.log, partial_eval(Head(rest), ctx))
         IN IF v.st # "ok" THEN v
            ELSE IF IsConst(v.out) /\ op # "Coalesce"
                    /\ v.out.v.t \notin {"Bool", "Null"}
                 THEN Err("OpTypeMismatch", v.log)
            ELSE IF IsConst(v.out) /\ Decides(op, v.out.v)
                    /\ \A i \in 1..Len(acc.collected) : IsConst(acc.collected[i])
                 THEN Ok(v.out, v.log)
            ELSE PartialEvalLogicArgs(op, Tail(rest), ctx,
                     [collected |-> Append(acc.collected, v.out), log |-> v.log])

PartialEvalApply(e, ctx) ==
    IF OpArity(e.op) # {} /\ OpArity(e.op) # {Len(e.args)}
    THEN Err("ArityMismatch", <<>>)
    ELSE IF e.op \in LogicOpNames
         THEN PartialEvalLogicArgs(e.op, e.args, ctx, [collected |-> <<>>, log |-> <<>>])
    ELSE PartialEvalApplyArgs(e.op, e.args, ctx,
             [has_unevaluated |-> FALSE, eval_args |-> <<>>, ret |-> FALSE,
              log |-> <<>>])

PartialEvalApplyAgg(e, ctx) ==
    LET a == PartialEvalAll(e.a_args, ctx)
    IN IF a.st # "ok" THEN a
       ELSE LET b == After(a.log, PartialEvalAll(e.args, ctx))
            IN IF b.st # "ok" THEN b
               ELSE Ok(ApplyAgg(e.op, a.out, b.out), b.log)

\* partial_eval_if_expr.
PartialEvalIfExpr(e, ctx) ==
    LET c == partial_eval(e.cond, ctx)
    IN IF c.st # "ok" THEN c
       ELSE IF c.out = Const(BoolV(TRUE))
            THEN After(c.log, partial_eval(e.if_part, ctx))
       ELSE IF c.out = Const(BoolV(FALSE)) \/ c.out = Const(NullV)
            THEN After(c.log, partial_eval(e.else_part, ctx))
       ELSE LET t == After(c.log, partial_eval(e.if_part, ctx))
            IN IF t.st # "ok" THEN t
               ELSE LET f == After(t.log, partial_eval(e.else_part, ctx))
                    IN IF f.st # "ok" THEN f
                       ELSE Ok(IfExpr(c.out, t.out, f.out), f.log)

\* A SwitchExpr is a list of (match, branch) pairs: the first pair's match
\* is the scrutinee, the last pair's branch is the default, the pairs in
\* between are the arms.
SwitchScrutinee(pairs) == pairs[1][1]
SwitchDefault(pairs) == pairs[Len(pairs)][2]
SwitchArms(pairs) == SubSeq(pairs, 2, Len(pairs) - 1)

\* The residual SwitchExpr: every pair partially evaluated.
RECURSIVE PartialEvalPairs(_, _)
PartialEvalPairs(pairs, ctx) ==
    IF Len(pairs) = 0 THEN Ok(<<>>, <<>>)
    ELSE LET m == partial_eval(Head(pairs)[1], ctx)
         IN IF m.st # "ok" THEN m
            ELSE LET b == After(m.log, partial_eval(Head(pairs)[2], ctx))
                 IN IF b.st # "ok" THEN b
                    ELSE LET t == After(b.log, PartialEvalPairs(Tail(pairs), ctx))
                         IN IF t.st # "ok" THEN t
                            ELSE Ok(<<  <<m.out, b.out>>  >> \o t.out, t.log)

\* The arms searched from the last one backwards.
RECURSIVE PartialEvalSwitchArms_LastMatch(_, _, _, _)
PartialEvalSwitchArms_LastMatch(s, arms, ctx, log) ==
    IF Len(arms) = 0 THEN Ok([sel |-> "default"], log)
    ELSE LET m == After(log, partial_eval(arms[Len(arms)][1], ctx))
         IN IF m.st # "ok" THEN m
            ELSE IF ~IsConst(m.out) THEN Ok([sel |-> "residual"], m.log)
            ELSE IF m.out.v = s
                 THEN Ok([sel |-> "arm", branch |-> arms[Len(arms)][2]], m.log)
            ELSE PartialEvalSwitchArms_LastMatch(s, SubSeq(arms, 1, Len(arms) - 1),
                                                 ctx, m.log)

\* The arms in list order against the constant scrutinee value s: the
\* outcome carries sel = "arm" with the chosen branch, "default" when no
\* arm matched, "residual" when a match expression is not a constant.
PartialEvalSwitchArms(s, arms, ctx, log) ==
    IF Len(arms) = 0 THEN Ok([sel |-> "default"], log)
    ELSE LET m == After(log, partial_eval(Head(arms)[1], ctx))
         IN IF m.st # "ok" THEN m
            ELSE IF ~IsConst(m.out) THEN Ok([sel |-> "residual"], m.log)
            ELSE IF m.out.v = s
                 THEN Ok([sel |-> "arm", branch |-> Head(arms)[2]], m.log)
            ELSE PartialEvalSwitchArms(s, Tail(arms), ctx, m.log)

\* partial_eval_switch_expr.
PartialEvalSwitchExpr(e, ctx) ==
    LET s == partial_eval(SwitchScrutinee(e.pairs), ctx)
        residual ==
            LET r == PartialEvalPairs(e.pairs, ctx)
            IN IF r.st # "ok" THEN r ELSE Ok(SwitchExpr(r.out), r.log)
    IN IF s.st # "ok" THEN s
       ELSE IF ~IsConst(s.out) THEN residual
       ELSE LET a == PartialEvalSwitchArms(s.out.v, SwitchArms(e.pairs), ctx, s.log)
            IN IF a.st # "ok" THEN a
               ELSE IF a.out.sel = "arm"
                    THEN After(a.log, partial_eval(a.out.branch, ctx))
               ELSE IF a.out.sel = "default"
                    THEN After(a.log, partial_eval(SwitchDefault(e.pairs), ctx))
               ELSE residual

partial_eval(e, ctx) ==
    CASE e.tag \in {"Const", "TableCol", "TupleSetIdx"} -> Ok(e, <<>>)
      [] e.tag = "List" -> PartialEvalList(e, ctx)
      [] e.tag = "Dict" -> PartialEvalDict(e, ctx)
      [] e.tag = "Variable" -> PartialEvalVariable(e, ctx)
      [] e.tag = "FieldAcc" -> PartialEvalFieldAcc(e, ctx)
      [] e.tag = "IdxAcc" -> PartialEvalIdxAcc(e, ctx)
      [] e.tag = "Apply" -> PartialEvalApply(e, ctx)
      [] e.tag = "ApplyAgg" -> PartialEvalApplyAgg(e, ctx)
      [] e.tag = "IfExpr" -> PartialEvalIfExpr(e, ctx)
      [] e.tag = "SwitchExpr" -> PartialEvalSwitchExpr(e, ctx)
      [] e.tag \in SpecializedNames -> Err("OptimizedBeforePartialEval", <<>>)

\* Expr::interpret_eval.
interpret_eval(e, ctx) ==
    LET r == partial_eval(e, ctx)
    IN IF r.st # "ok" THEN r
       ELSE IF IsConst(r.out) THEN Ok(r.out.v, r.log)
       ELSE Err("IncompleteEvaluation", r.log)

----------------------------------------------------------------------------
(* Expr::optimize_ops.  The outcome is Ok(expr) or a panic (unwrap on an  *)
(* exhausted argument iterator).                                           *)

RECURSIVE optimize_ops(_)
RECURSIVE OptimizeAll(_)
RECURSIVE OptimizeFold(_, _, _)

\* into_iter().map(|v| v.optimize_ops()).collect()
OptimizeAll(es) ==
    IF Len(es) = 0 THEN Ok(<<>>, <<>>)
    ELSE LET h == optimize_ops(Head(es))
         IN IF h.st # "ok" THEN h
            ELSE LET t == OptimizeAll(Tail(es))
                 IN IF t.st # "ok" THEN t ELSE Ok(<<h.out>> \o t.out, <<>>)

\* extract_optimized_bin_args: the first two arguments, optimized.
extract_optimized_bin_args(args) ==
    IF Len(args) < 1 THEN Panic(<<>>)
    ELSE LET a == optimize_ops(args[1])
         IN IF a.st # "ok" THEN a
            ELSE IF Len(args) < 2 THEN Panic(<<>>)
            ELSE LET b == optimize_ops(args[2])
                 IN IF b.st # "ok" THEN b ELSE Ok(<<a.out, b.out>>, <<>>)

\* extract_optimized_u_args: the first argument, optimized.
extract_optimized_u_args(args) ==
    IF Len(args) < 1 THEN Panic(<<>>) ELSE optimize_ops(args[1])

\* for nxt in args { arg = Op((arg, nxt.optimize_ops())) }
OptimizeFold(tag, arg, rest) ==
    IF Len(rest) = 0 THEN Ok(arg, <<>>)
    ELSE LET n == optimize_ops(Head(rest))
         IN IF n.st # "ok" THEN n
            ELSE OptimizeFold(tag, Bin(tag, arg, n.out), Tail(rest))

\* A variant of OptimizeLogic that builds And chains for Or and Or chains
\* for And.
OptimizeLogic_WrongNode(tag, args) ==
    IF Len(args) < 1 THEN Panic(<<>>)
    ELSE LET a == optimize_ops(args[1])
         IN IF a.st # "ok" THEN a
            ELSE OptimizeFold(IF tag = "And" THEN "Or" ELSE "And", a.out, Tail(args))

\* The Coalesce / Or / And arms: a left-associative chain of binary nodes.
OptimizeLogic(tag, args) ==
    IF Len(args) < 1 THEN Panic(<<>>)
    ELSE LET a == optimize_ops(args[1])
         IN IF a.st # "ok" THEN a ELSE OptimizeFold(tag, a.out, Tail(args))

OptimizeApply(e) ==
    IF e.op \in BinOpNames THEN
        LET p == extract_optimized_bin_args(e.args)
        IN IF p.st # "ok" THEN p ELSE Ok(Bin(e.op, p.out[1], p.out[2]), <<>>)
    ELSE IF e.op \in UnOpNames THEN
        LET a == extract_optimized_u_args(e.args)
        IN IF a.st # "ok" THEN a ELSE Ok(Un(e.op, a.out), <<>>)
    ELSE IF e.op \in LogicOpNames THEN OptimizeLogic(e.op, e.args)
    ELSE LET r == OptimizeAll(e.args)
         IN IF r.st # "ok" THEN r ELSE Ok(Apply(e.op, r.out), <<>>)

OptimizeSwitch(e) ==
    LET ms == OptimizeAll([i \in 1..Len(e.pairs) |-> e.pairs[i][1]])
        bs == OptimizeAll([i \in 1..Len(e.pairs) |-> e.pairs[i][2]])
    IN IF ms.st # "ok" THEN ms
       ELSE IF bs.st # "ok" THEN bs
       ELSE Ok(SwitchExpr([i \in 1..Len(e.pairs) |-> <<ms.out[i], bs.out[i]>>]), <<>>)

optimize_ops(e) ==
    CASE e.tag = "List" ->
           LET r == OptimizeAll(e.l)
           IN IF r.st # "ok" THEN r ELSE Ok(List(r.out), <<>>)
      [] e.tag = "Dict" ->
           LET r == OptimizeAll(MapValues(e.d))
           IN IF r.st # "ok" THEN r
              ELSE Ok(Dict(MapOf(SortedKeys(e.d), r.out)), <<>>)
      [] e.tag = "Apply" -> OptimizeApply(e)
      [] e.tag = "ApplyAgg" ->
           LET a == OptimizeAll(e.a_args)
               b == OptimizeAll(e.args)
           IN IF a.st # "ok" THEN a
              ELSE IF b.st # "ok" THEN b
              ELSE Ok(ApplyAgg(e.op, a.out, b.out), <<>>)
      [] e.tag = "FieldAcc" ->
           LET r == optimize_ops(e.arg)
           IN IF r.st # "ok" THEN r ELSE Ok(FieldAcc(e.f, r.out), <<>>)
      [] e.tag = "IdxAcc" ->
           LET r == optimize_ops(e.arg)
           IN IF r.st # "ok" THEN r ELSE Ok(IdxAcc(e.i, r.out), <<>>)
      [] e.tag = "IfExpr" ->
           LET r == OptimizeAll(<<e.cond, e.if_part, e.else_part>>)
           IN IF r.st # "ok" THEN r
              ELSE Ok(IfExpr(r.out[1], r.out[2], r.out[3]), <<>>)
      [] e.tag = "SwitchExpr" -> OptimizeSwitch(e)
      [] e.tag \in {"Const", "Variable", "TableCol", "TupleSetIdx"}
                     \cup SpecializedNames -> Ok(e, <<>>)

----------------------------------------------------------------------------
(* Expr::row_eval.                                                         *)

RECURSIVE row_eval(_, _)
RECURSIVE RowEvalAll(_, _)
RECURSIVE RowEvalApplyArgs(_, _, _, _)
RECURSIVE RowEvalSwitchArms(_, _, _, _)

\* iter().map(|v| v.row_eval(ctx)).collect::<Result<Vec<_>>>()
RowEvalAll(es, ctx) ==
    IF Len(es) = 0 THEN Ok(<<>>, <<>>)
    ELSE LET h == row_eval(Head(es), ctx)
         IN IF h.st # "ok" THEN h
            ELSE LET t == After(h.log, RowEvalAll(Tail(es), ctx))
                 IN IF t.st # "ok" THEN t ELSE Ok(<<h.out>> \o t.out, t.log)

\* The argument loop of the generic Apply arm.
RowApplyReturnsNull(op, v) == OpNonNullArgs(op) /\ v = NullV

RowEvalApplyArgs(op, rest, ctx, acc) ==
    IF Len(rest) = 0 THEN After(acc.log, OpEval(op, acc.eval_args))
    ELSE LET v == After(acc.log, row_eval(Head(rest), ctx))
         IN IF v.st # "ok" THEN v
            ELSE IF RowApplyReturnsNull(op, v.out) THEN Ok(NullV, v.log)
            ELSE RowEvalApplyArgs(op, Tail(rest), ctx,
                     [eval_args |-> Append(acc.eval_args, v.out), log |-> v.log])

\* The match on the evaluated argument of a FieldAcc.
RowFieldAccOn(f, v, log) ==
    IF v = NullV THEN Ok(NullV, log)
    ELSE IF v.t = "Dict" THEN Ok(MapRemove(v.d, f, NullV), log)
    ELSE Err("FieldAccess", log)

\* The match on the evaluated argument of an IdxAcc.
RowIdxAccOn(idx, v, log) ==
    IF v = NullV THEN Ok(NullV, log)
    ELSE IF v.t = "List" THEN
        IF idx >= Len(v.l) THEN Ok(NullV, log) ELSE Ok(SwapRemove(v.l, idx), log)
    ELSE Err("IndexAccess", log)

\* The specialized binary arms (Add .. Le): either operand Null returns
\* Null at once, else eval_two_non_null.
RowEvalBin(e, ctx) ==
    LET a == row_eval(e.a, ctx)
    IN IF a.st # "ok" THEN a
       ELSE IF a.out = NullV THEN a
       ELSE LET b == After(a.log, row_eval(e.b, ctx))
            IN IF b.st # "ok" THEN b
               ELSE IF b.out = NullV THEN b
               ELSE After(b.log \o <<[ev |-> "eval_two_non_null", op |-> e.tag]>>,
                          EvalTwoNonNull(e.tag, a.out, b.out))

\* The specialized unary arms.
RowEvalUn(e, ctx) ==
    LET a == row_eval(e.a, ctx)
    IN IF a.st # "ok" THEN a
       ELSE IF e.tag \in {"IsNull", "NotNull"}
            THEN After(a.log \o <<[ev |-> "eval_one", op |-> e.tag]>>,
                       EvalOne(e.tag, a.out))
       ELSE IF a.out = NullV THEN a
       ELSE After(a.log \o <<[ev |-> "eval_one_non_null", op |-> e.tag]>>,
                  EvalOneNonNull(e.tag, a.out))

\* row_eval_and.
row_eval_and(ctx, left, right) ==
    LET a == row_eval(left, ctx)
    IN IF a.st # "ok" THEN a
       ELSE IF a.out = BoolV(FALSE) THEN a
       ELSE IF a.out.t \notin {"Bool", "Null"} THEN Err("OpTypeMismatch", a.log)
       ELSE LET b == After(a.log, row_eval(right, ctx))
            IN IF b.st # "ok" THEN b
               ELSE IF b.out.t \notin {"Bool", "Null"}
                    THEN Err("OpTypeMismatch", b.log)
               ELSE IF a.out = BoolV(TRUE) THEN b
               ELSE IF b.out = BoolV(FALSE) THEN b
               ELSE Ok(NullV, b.log)

\* row_eval_or.
row_eval_or(ctx, left, right) ==
    LET a == row_eval(left, ctx)
    IN IF a.st # "ok" THEN a
       ELSE IF a.out = BoolV(TRUE) THEN a
       ELSE IF a.out.t \notin {"Bool", "Null"} THEN Err("OpTypeMismatch", a.log)
       ELSE LET b == After(a.log, row_eval(right, ctx))
            IN IF b.st # "ok" THEN b
               ELSE IF b.out.t \notin {"Bool", "Null"}
                    THEN Err("OpTypeMismatch", b.log)
               ELSE IF a.out = BoolV(FALSE) THEN b
               ELSE IF b.out = BoolV(TRUE) THEN b
               ELSE Ok(NullV, b.log)

\* row_eval_coalesce.
row_eval_coalesce(ctx, left, right) ==
    LET a == row_eval(left, ctx)
    IN IF a.st # "ok" THEN a
       ELSE IF a.out # NullV THEN a
       ELSE After(a.log, row_eval(right, ctx))

\* A variant of RowEvalLogic that hands the children over second child
\* first.
RowEvalLogic_Swapped(e, ctx) ==
    CASE e.tag = "Coalesce" -> row_eval_coalesce(ctx, e.b, e.a)
      [] e.tag = "Or" -> row_eval_or(ctx, e.b, e.a)
      [] e.tag = "And" -> row_eval_and(ctx, e.b, e.a)

\* The Coalesce / Or / And arms hand both children to the short-circuit
\* evaluators, first child first.
RowEvalLogic(e, ctx) ==
    CASE e.tag = "Coalesce" -> row_eval_coalesce(ctx, e.a, e.b)
      [] e.tag = "Or" -> row_eval_or(ctx, e.a, e.b)
      [] e.tag = "And" -> row_eval_and(ctx, e.a, e.b)

\* row_eval_if_expr.
row_eval_if_expr(ctx, cond, if_part, else_part) ==
    LET c == row_eval(cond, ctx)
    IN IF c.st # "ok" THEN c
       ELSE IF c.out = BoolV(TRUE) THEN After(c.log, row_eval(if_part, ctx))
       ELSE IF c.out = BoolV(FALSE) \/ c.out = NullV
            THEN After(c.log, row_eval(else_part, ctx))
       ELSE Err("OpTypeMismatch", c.log)

\* The arms in list order against the scrutinee value s.
RowEvalSwitchArms(s, arms, ctx, log) ==
    IF Len(arms) = 0 THEN Ok([sel |-> "default"], log)
    ELSE LET m == After(log, row_eval(Head(arms)[1], ctx))
         IN IF m.st # "ok" THEN m
            ELSE IF m.out = s
                 THEN Ok([sel |-> "arm", branch |-> Head(arms)[2]], m.log)
            ELSE RowEvalSwitchArms(s, Tail(arms), ctx, m.log)

\* row_eval_switch_expr.
row_eval_switch_expr(ctx, pairs) ==
    LET s == row_eval(SwitchScrutinee(pairs), ctx)
    IN IF s.st # "ok" THEN s
       ELSE LET a == RowEvalSwitchArms(s.out, SwitchArms(pairs), ctx, s.log)
            IN IF a.st # "ok" THEN a
               ELSE IF a.out.sel = "arm"
                    THEN After(a.log, row_eval(a.out.branch, ctx))
               ELSE After(a.log, row_eval(SwitchDefault(pairs), ctx))

row_eval(e, ctx) ==
    CASE e.tag = "Const" -> Ok(e.v, <<>>)
      [] e.tag = "List" ->
           LET r == RowEvalAll(e.l, ctx)
           IN IF r.st # "ok" THEN r ELSE Ok(ListV(r.out), r.log)
      [] e.tag = "Dict" ->
           LET r == RowEvalAll(MapValues(e.d), ctx)
           IN IF r.st # "ok" THEN r
              ELSE Ok(DictV(MapOf(SortedKeys(e.d), r.out)), r.log)
      [] e.tag = "Variable" -> Err("UnresolvedVariable", <<>>)
      [] e.tag = "TableCol" -> Err("UnresolveTableCol", <<>>)
      [] e.tag = "TupleSetIdx" -> RowResolve(ctx, e.idx)
      [] e.tag = "Apply" ->
           RowEvalApplyArgs(e.op, e.args, ctx, [eval_args |-> <<>>, log |-> <<>>])
      [] e.tag = "ApplyAgg" -> Panic(<<>>)
      [] e.tag = "FieldAcc" ->
           LET r == row_eval(e.arg, ctx)
           IN IF r.st # "ok" THEN r ELSE RowFieldAccOn(e.f, r.out, r.log)
      [] e.tag = "IdxAcc" ->
           LET r == row_eval(e.arg, ctx)
           IN IF r.st # "ok" THEN r ELSE RowIdxAccOn(e.i, r.out, r.log)
      [] e.tag = "IfExpr" -> row_eval_if_expr(ctx, e.cond, e.if_part, e.else_part)
      [] e.tag = "SwitchExpr" -> row_eval_switch_expr(ctx, e.pairs)
      [] e.tag \in BinOpNames -> RowEvalBin(e, ctx)
      [] e.tag \in UnOpNames -> RowEvalUn(e, ctx)
      [] e.tag \in LogicOpNames -> RowEvalLogic(e, ctx)

----------------------------------------------------------------------------
(* Tree helpers.                                                           *)

\* The child expressions of a node.
Children(e) ==
    CASE e.tag \in {"Const", "Variable", "TableCol", "TupleSetIdx"} -> <<>>
      [] e.tag = "List" -> e.l
      [] e.tag = "Dict" -> MapValues(e.d)
      [] e.tag = "Apply" -> e.args
      [] e.tag = "ApplyAgg" -> e.a_args \o e.args
      [] e.tag \in {"FieldAcc", "IdxAcc"} -> <<e.arg>>
      [] e.tag = "IfExpr" -> <<e.cond, e.if_part, e.else_part>>
      [] e.tag = "SwitchExpr" ->
           [i \in 1..(2 * Len(e.pairs)) |-> e.pairs[(i + 1) \div 2][2 - (i % 2)]]
      [] e.tag \in BinOpNames \cup LogicOpNames -> <<e.a, e.b>>
      [] e.tag \in UnOpNames -> <<e.a>>

\* Some node of e carries one of the tags.
RECURSIVE HasTag(_, _)
HasTag(e, tags) ==
    \/ e.tag \in tags
    \/ \E i \in 1..Len(Children(e)) : HasTag(Children(e)[i], tags)

\* e with every Variable the context resolves replaced by its resolution
\* (a FieldAcc over a binding.field the context knows by its TableCol): the
\* tree that direct evaluation runs on.
RECURSIVE Substitute(_, _)
Substitute(e, ctx) ==
    LET sub(x) == Substitute(x, ctx)
        subs(xs) == [i \in 1..Len(xs) |-> Substitute(xs[i], ctx)]
    IN CASE e.tag = "Variable" ->
              IF Resolve(ctx, e.name) = {} THEN e
              ELSE CHOOSE x \in Resolve(ctx, e.name) : TRUE
         [] e.tag \in {"Const", "TableCol", "TupleSetIdx"} -> e
         [] e.tag = "List" -> List(subs(e.l))
         [] e.tag = "Dict" -> Dict([k \in DOMAIN e.d |-> sub(e.d[k])])
         [] e.tag = "Apply" -> Apply(e.op, subs(e.args))
         [] e.tag = "ApplyAgg" -> ApplyAgg(e.op, subs(e.a_args), subs(e.args))
         [] e.tag = "FieldAcc" ->
              IF e.arg.tag = "Variable" /\ ResolveTableCol(ctx, e.arg.name, e.f) # {}
              THEN LET p == CHOOSE x \in ResolveTableCol(ctx, e.arg.name, e.f) : TRUE
                   IN TableCol(p[1], p[2])
              ELSE FieldAcc(e.f, sub(e.arg))
         [] e.tag = "IdxAcc" -> IdxAcc(e.i, sub(e.arg))
         [] e.tag = "IfExpr" -> IfExpr(sub(e.cond), sub(e.if_part), sub(e.else_part))
         [] e.tag = "SwitchExpr" ->
              SwitchExpr([i \in 1..Len(e.pairs) |->
                             <<sub(e.pairs[i][1]), sub(e.pairs[i][2])>>])
         [] e.tag \in BinOpNames \cup LogicOpNames -> Bin(e.tag, sub(e.a), sub(e.b))
         [] e.tag \in UnOpNames -> Un(e.tag, sub(e.a))

----------------------------------------------------------------------------
(* The inputs: expressions, symbolic contexts and row contexts.            *)

SeqsUpTo(S, n) == UNION {[1..k -> S] : k \in 0..n}

T == Const(BoolV(TRUE))
F == Const(BoolV(FALSE))
N == Const(NullV)
I(n) == Const(IntV(n))
Txt(c) == Const(TextV(<<c>>))
Slot == TupleSetIdx(0)
Col == TableCol(1, 1)
VarX == Variable("x")
\* 1 / 0: an operand whose evaluation fails.
DivZero == Apply("Div", <<I(1), I(0)>>)

\* [0, 1, .., n-1] and {f: 1, g: null}.
ListOfLen(n) == ListV([k \in 1..n |-> IntV(k - 1)])
DictFG == DictV([k \in {"f", "g"} |-> IF k = "f" THEN IntV(1) ELSE NullV])

IntConsts == {I(n) : n \in 0..MaxInt}

\* n-ary And / Or / Coalesce over logical constants, a non-logical constant,
\* a row slot and a failing operand.
LogicLeaves == {T, F, N, I(1), Slot, DivZero}
LogicInputs ==
    {Apply(op, args) : op \in LogicOpNames, args \in SeqsUpTo(LogicLeaves, MaxArgs)}

\* Generic applications with zero to arity + 1 arguments.
ApplyLeaves == IntConsts \cup {N, Txt(1), Slot, Col}
BinInputs ==
    {Apply(op, args) : op \in {"Add", "Div", "Eq", "StrCat"},
                       args \in SeqsUpTo(ApplyLeaves, 3)}
UnInputs ==
    {Apply(op, args) : op \in {"Not", "Minus", "IsNull", "NotNull"},
                       args \in SeqsUpTo({T, N, I(1), Slot, VarX}, 2)}

\* Field and index access over realized values, literals and residuals.
AccessArgs ==
    {Const(v) : v \in {NullV, BoolV(TRUE), IntV(1), TextV(<<1>>), DictFG,
                       DictV(EmptyMap), DictV([k \in {"f"} |-> DictFG])}
                      \cup {ListOfLen(n) : n \in 0..MaxIdx}}
    \cup {List(<<>>), List(<<I(0), I(1)>>), List(<<I(0), Slot>>),
          Dict(EmptyMap), Dict([k \in {"f"} |-> I(1)]),
          Dict([k \in {"f", "g"} |-> IF k = "f" THEN Slot ELSE I(0)]),
          Slot, Col, VarX, Apply("Add", <<Slot, I(1)>>),
          FieldAcc("f", Const(DictV([k \in {"f"} |-> DictFG]))),
          IdxAcc(0, Slot), ApplyAgg("count", <<>>, <<Slot>>)}
AccessInputs ==
    {FieldAcc(f, x) : f \in {"f", "g", "h"}, x \in AccessArgs}
    \cup {IdxAcc(i, x) : i \in 0..MaxIdx, x \in AccessArgs}

\* Conditionals; a branch may be ill-formed (an Add of one argument).
IfInputs ==
    {IfExpr(c, a, b) : c \in {T, F, N, I(1), Slot, VarX},
                       a \in {I(0), Slot, DivZero},
                       b \in {I(1), N, Apply("Add", <<I(1)>>)}}

\* Switches: the scrutinee pair, up to MaxArms arms, the default pair.  Arm
\* k answers the text <<k>>, the default answers <<0>>.
SwitchMatches == IntConsts \cup {N, Apply("Add", <<I(0), I(1)>>), Slot}
SwitchOf(scr, ms) ==
    SwitchExpr(<< <<scr, N>> >>
               \o [k \in 1..Len(ms) |-> <<ms[k], Txt(k)>>]
               \o << <<N, Txt(0)>> >>)
SwitchInputs ==
    {SwitchOf(scr, ms) : scr \in IntConsts \cup {N, Slot},
                         ms \in SeqsUpTo(SwitchMatches, MaxArms)}
    \cup {SwitchExpr(<< <<scr, Txt(0)>> >>) : scr \in IntConsts \cup {Slot}}

\* Literals and nested trees, among them the evaluations of the test module.
NestedInputs ==
    {List(<<>>), List(<<I(1)>>), List(<<I(0), Apply("Add", <<I(1), I(1)>>)>>),
     Dict(EmptyMap), Dict([k \in {"f"} |-> I(1)]),
     Apply("Add", <<List(<<I(1)>>), I(1)>>),
     Apply("IsNull", <<List(<<>>)>>),
     I(1), N, Slot, Col, VarX,
     Apply("Add", <<Apply("Mul", <<I(1), I(1)>>), Apply("Div", <<I(1), I(1)>>)>>),
     Apply("Gt", <<Txt(1), Txt(2)>>),
     Apply("Gt", <<I(1), N>>),
     Apply("IsNull", <<Apply("IsNull",
         <<Apply("Add", <<Apply("Coalesce", <<N, I(1)>>), I(1)>>)>>)>>),
     Apply("Add", <<Apply("Add", <<Slot, I(1)>>), I(1)>>),
     Apply("Add", <<VarX, I(1)>>),
     Apply("And", <<Apply("Or", <<F, Slot>>), T>>),
     Apply("And", <<Apply("IsNull", <<Slot>>), Apply("Eq", <<Slot, I(1)>>)>>),
     Apply("Coalesce", <<Apply("Add", <<N, I(1)>>), VarX>>),
     FieldAcc("f", Apply("Coalesce", <<N, Const(DictFG)>>)),
     IfExpr(Apply("Eq", <<I(1), I(0)>>), Txt(1),
            IfExpr(Apply("Eq", <<I(1), I(1)>>), Txt(2), Txt(3))),
     ApplyAgg("count", <<I(1)>>, <<Apply("Add", <<I(1), I(1)>>)>>),
     Bin("Add", I(1), I(1)), Un("Not", T), Bin("And", T, Slot)}

\* Trees that already hold nodes of the optimizer's, over generic
\* applications not yet rewritten.
SpecializedInputs ==
    {Bin("Add", Apply("Add", <<I(1), I(1)>>), I(1)),
     Bin("And", T, Apply("And", <<T, F>>)),
     Un("Not", Apply("Not", <<T>>)),
     Un("IsNull", Apply("IsNull", <<Slot>>)),
     List(<<Bin("Eq", I(1), Apply("Minus", <<I(1)>>))>>)}

Inputs ==
    LogicInputs \cup BinInputs \cup UnInputs \cup AccessInputs
    \cup IfInputs \cup SwitchInputs \cup NestedInputs \cup SpecializedInputs

\* Symbolic contexts: the trivial one, and ones binding x to a row slot or
\* a constant, with or without the column x.f.
SymCtxs ==
    {UnitExprCtx,
     [vars |-> [k \in {"x"} |-> Slot], cols |-> EmptyMap],
     [vars |-> [k \in {"x"} |-> Const(DictFG)], cols |-> EmptyMap],
     [vars |-> [k \in {"x"} |-> Slot],
      cols |-> [k \in {<<"x", "f">>} |-> <<1, 1>>]]}

\* Row contexts: the trivial one, and ones supplying slot 0.
RowCtxs ==
    {UnitRowCtx}
    \cup {[slots |-> [k \in {0} |-> v]] :
             v \in {NullV, BoolV(FALSE), IntV(1), DictFG, ListOfLen(MaxIdx)}}

----------------------------------------------------------------------------
(* The state machine: one expression and its contexts are taken through    *)
(* the evaluator's entry points, each call's outcome recorded.             *)

VARIABLES
    expr,       \* the expression under evaluation
    sctx,       \* the symbolic context (ExprEvalContext)
    rctx,       \* the row context (RowEvalContext)
    pc,         \* the next call
    pe,         \* expr.partial_eval(sctx)
    pe2,        \* pe.partial_eval(sctx)
    ie,         \* expr.interpret_eval(sctx)
    opt,        \* expr.optimize_ops()
    optpe,      \* pe.optimize_ops()
    rv_opt,     \* opt.row_eval(rctx)
    rv_pe,      \* optpe.row_eval(rctx)
    rv_raw,     \* expr.row_eval(rctx)
    direct,     \* expr with its variables resolved, optimized and row-evaluated
    frame,      \* the expression of the innermost partial_eval call in progress
    depth,      \* the number of nested partial_eval calls in progress
    srv,        \* the server process: "start", "listening", "exited" or "off"
    bind,       \* args.bind
    cozo_auth,  \* the COZO_AUTH environment variable as the system holds it
    auth_str,   \* env::var("COZO_AUTH").ok()
    exit_code,  \* the status the server process ended with, -1 while it runs
    served      \* the requests answered so far, each with its response

\* The variables of the call chain of partial_eval and those of the server.
chainvars == <<frame, depth>>
servervars == <<srv, bind, cozo_auth, auth_str, exit_code, served>>

vars == <<expr, sctx, rctx, pc, pe, pe2, ie, opt, optpe, rv_opt, rv_pe, rv_raw, direct,
          chainvars, servervars>>

\* A call not made yet, and a call that cannot be made because the tree it
\* runs on was not produced.
NotRun == [st |-> "none", out |-> NullV, err |-> "", log |-> <<>>]
NoInput == [st |-> "skipped", out |-> NullV, err |-> "", log |-> <<>>]

\* No partial_eval call is being followed; no server process exists.
ChainIdle == frame = N /\ depth = 0
ServerOff ==
    /\ srv = "off" /\ bind = ""
    /\ cozo_auth = [set |-> FALSE, unicode |-> FALSE, val |-> ""]
    /\ auth_str = [some |-> FALSE, val |-> ""] /\ exit_code = -1 /\ served = <<>>

Init ==
    /\ expr \in Inputs
    /\ sctx \in IF HasTag(expr, {"Variable"}) THEN SymCtxs ELSE {UnitExprCtx}
    /\ rctx \in IF HasTag(expr, {"Variable", "TupleSetIdx"})
                THEN RowCtxs ELSE {UnitRowCtx}
    /\ pc = "partial_eval"
    /\ pe = NotRun /\ pe2 = NotRun /\ ie = NotRun /\ opt = NotRun
    /\ optpe = NotRun /\ rv_opt = NotRun /\ rv_pe = NotRun
    /\ rv_raw = NotRun /\ direct = NotRun
    /\ ChainIdle
    /\ ServerOff

PartialEval ==
    /\ pc = "partial_eval"
    /\ pe' = partial_eval(expr, sctx)
    /\ pc' = "partial_eval_again"
    /\ UNCHANGED <<expr, sctx, rctx, pe2, ie, opt, optpe, rv_opt, rv_pe, rv_raw, direct>>
    /\ UNCHANGED <<chainvars, servervars>>

PartialEvalAgain ==
    /\ pc = "partial_eval_again"
    /\ pe2' = IF pe.st = "ok" THEN partial_eval(pe.out, sctx) ELSE NoInput
    /\ pc' = "interpret_eval"
    /\ UNCHANGED <<expr, sctx, rctx, pe, ie, opt, optpe, rv_opt, rv_pe, rv_raw, direct>>
    /\ UNCHANGED <<chainvars, servervars>>

InterpretEval ==
    /\ pc = "interpret_eval"
    /\ ie' = interpret_eval(expr, sctx)
    /\ pc' = "optimize_ops"
    /\ UNCHANGED <<expr, sctx, rctx, pe, pe2, opt, optpe, rv_opt, rv_pe, rv_raw, direct>>
    /\ UNCHANGED <<chainvars, servervars>>

OptimizeOps ==
    /\ pc = "optimize_ops"
    /\ opt' = optimize_ops(expr)
    /\ pc' = "optimize_partial"
    /\ UNCHANGED <<expr, sctx, rctx, pe, pe2, ie, optpe, rv_opt, rv_pe, rv_raw, direct>>
    /\ UNCHANGED <<chainvars, servervars>>

OptimizePartial ==
    /\ pc = "optimize_partial"
    /\ optpe' = IF pe.st = "ok" THEN optimize_ops(pe.out) ELSE NoInput
    /\ pc' = "row_eval_optimized"
    /\ UNCHANGED <<expr, sctx, rctx, pe, pe2, ie, opt, rv_opt, rv_pe, rv_raw, direct>>
    /\ UNCHANGED <<chainvars, servervars>>

RowEvalOptimized ==
    /\ pc = "row_eval_optimized"
    /\ rv_opt' = IF opt.st = "ok" THEN row_eval(opt.out, rctx) ELSE NoInput
    /\ pc' = "row_eval_partial"
    /\ UNCHANGED <<expr, sctx, rctx, pe, pe2, ie, opt, optpe, rv_pe, rv_raw, direct>>
    /\ UNCHANGED <<chainvars, servervars>>

RowEvalPartial ==
    /\ pc = "row_eval_partial"
    /\ rv_pe' = IF optpe.st = "ok" THEN row_eval(optpe.out, rctx) ELSE NoInput
    /\ pc' = "row_eval_raw"
    /\ UNCHANGED <<expr, sctx, rctx, pe, pe2, ie, opt, optpe, rv_opt, rv_raw, direct>>
    /\ UNCHANGED <<chainvars, servervars>>

RowEvalRaw ==
    /\ pc = "row_eval_raw"
    /\ rv_raw' = row_eval(expr, rctx)
    /\ pc' = "row_eval_direct"
    /\ UNCHANGED <<expr, sctx, rctx, pe, pe2, ie, opt, optpe, rv_opt, rv_pe, direct>>
    /\ UNCHANGED <<chainvars, servervars>>

RowEvalDirect ==
    /\ pc = "row_eval_direct"
    /\ direct' = LET o == optimize_ops(Substitute(expr, sctx))
                 IN IF o.st = "ok" THEN row_eval(o.out, rctx) ELSE o
    /\ pc' = "done"
    /\ UNCHANGED <<expr, sctx, rctx, pe, pe2, ie, opt, optpe, rv_opt, rv_pe, rv_raw>>
    /\ UNCHANGED <<chainvars, servervars>>

Next ==
    \/ PartialEval
    \/ PartialEvalAgain
    \/ InterpretEval
    \/ OptimizeOps
    \/ OptimizePartial
    \/ RowEvalOptimized
    \/ RowEvalPartial
    \/ RowEvalRaw
    \/ RowEvalDirect

Spec == Init /\ [][Next]_vars

----------------------------------------------------------------------------
(* The nested calls of one partial_eval invocation.  Every recursive call  *)
(* of partial_eval is on a child of its node, except the one of FieldAcc   *)
(* over a Variable, which is on whatever the context resolves the variable *)
(* to.  The chain of calls is followed one call at a time for expressions  *)
(* with one child per node; each call in progress holds a stack frame.     *)

\* The frames the stack has room for.
StackDepth == 8
\* The FieldAcc / IdxAcc nodes above the leaf of an expression followed.
MaxSpine == 2

\* The nested call that partial_eval on e makes before it can return: the
\* set holding the expression called on, or {} when it makes none.
Callee(e, ctx) ==
    IF e.tag = "FieldAcc" THEN
        IF e.arg.tag = "Variable" THEN
            IF ResolveTableCol(ctx, e.arg.name, e.f) # {} THEN {}
            ELSE Resolve(ctx, e.arg.name)
        ELSE {e.arg}
    ELSE IF e.tag = "IdxAcc" THEN {e.arg}
    ELSE {}

VarY == Variable("y")
ChainLeaves == {VarX, VarY, Slot, Const(DictFG)}
RECURSIVE SpinesUpTo(_)
SpinesUpTo(n) ==
    IF n = 0 THEN ChainLeaves
    ELSE LET below == SpinesUpTo(n - 1)
         IN below \cup {FieldAcc(f, x) : f \in {"f", "g"}, x \in below}
                  \cup {IdxAcc(0, x) : x \in below}
ChainInputs == SpinesUpTo(MaxSpine)

\* Symbolic contexts: x bound to a slot or a constant, with or without the
\* column x.f; x bound to an access to y; x bound to an access to x itself;
\* x and y bound to accesses to each other.
ChainCtxs ==
    SymCtxs
    \cup {[vars |-> [k \in {"x", "y"} |->
                        IF k = "x" THEN FieldAcc("g", VarY)
                        ELSE Const(DictV([j \in {"g"} |-> DictFG]))],
           cols |-> EmptyMap],
          [vars |-> [k \in {"x"} |-> FieldAcc("f", VarX)], cols |-> EmptyMap],
          [vars |-> [k \in {"x"} |-> FieldAcc("f", VarX)],
           cols |-> [k \in {<<"x", "g">>} |-> <<1, 1>>]],
          [vars |-> [k \in {"x", "y"} |->
                        IF k = "x" THEN FieldAcc("f", VarY)
                        ELSE IdxAcc(0, FieldAcc("g", VarX))],
           cols |-> EmptyMap]}

\* No evaluation pipeline is being run.
EvalOff ==
    /\ pe = NotRun /\ pe2 = NotRun /\ ie = NotRun /\ opt = NotRun
    /\ optpe = NotRun /\ rv_opt = NotRun /\ rv_pe = NotRun
    /\ rv_raw = NotRun /\ direct = NotRun
    /\ rctx = UnitRowCtx

\* expr.partial_eval(sctx) has just been called.
ChainInit ==
    /\ expr \in ChainInputs
    /\ sctx \in ChainCtxs
    /\ pc = "chain"
    /\ EvalOff
    /\ frame = expr
    /\ depth = 1
    /\ ServerOff

\* The call in progress makes its nested call.
Descend ==
    /\ pc = "chain"
    /\ Callee(frame, sctx) # {}
    /\ depth < StackDepth
    /\ frame' = CHOOSE x \in Callee(frame, sctx) : TRUE
    /\ depth' = depth + 1
    /\ UNCHANGED <<expr, sctx, rctx, pc, pe, pe2, ie, opt, optpe, rv_opt, rv_pe,
                   rv_raw, direct, servervars>>

\* The nested call finds no room on the stack: the process is aborted.
StackOverflow ==
    /\ pc = "chain"
    /\ Callee(frame, sctx) # {}
    /\ depth = StackDepth
    /\ pc' = "overflow"
    /\ UNCHANGED <<expr, sctx, rctx, pe, pe2, ie, opt, optpe, rv_opt, rv_pe,
                   rv_raw, direct, chainvars, servervars>>

\* The call in progress makes no nested call: it returns, and so does each
\* of its callers in turn, none of which calls again.
Unwind ==
    /\ pc = "chain"
    /\ Callee(frame, sctx) = {}
    /\ pe' = partial_eval(expr, sctx)
    /\ pc' = "returned"
    /\ depth' = 0
    /\ UNCHANGED <<expr, sctx, rctx, pe2, ie, opt, optpe, rv_opt, rv_pe,
                   rv_raw, direct, frame, servervars>>

ChainNext ==
    \/ Descend
    \/ StackOverflow
    \/ Unwind

ChainSpec == ChainInit /\ [][ChainNext]_vars

----------------------------------------------------------------------------
(* The HTTP server (bin/cozoserver.rs): main reads its arguments and the   *)
(* environment, refuses to expose an unauthenticated service, opens the    *)
(* database and serves requests.                                           *)

\* The requests followed per run of the server.
MaxRequests == 2

\* Option<String>.
None == [some |-> FALSE, val |-> ""]
Some(x) == [some |-> TRUE, val |-> x]

\* An environment variable as the system holds it: unset, or set to bytes
\* that are valid Unicode (the text val) or are not.
Unset == [set |-> FALSE, unicode |-> FALSE, val |-> ""]
SetTo(x) == [set |-> TRUE, unicode |-> TRUE, val |-> x]
SetToNonUnicode == [set |-> TRUE, unicode |-> FALSE, val |-> ""]

\* env::var(name).ok(): Some only for a variable set to valid Unicode.
EnvVar(v) == IF v.set /\ v.unicode THEN Some(v.val) ELSE None

Loopback == "127.0.0.1"
BindAddrs == {Loopback, "0.0.0.0"}
EnvValues == {Unset, SetTo("a"), SetTo("b"), SetToNonUnicode}

\* Requests: method, url, the x-cozo-auth header, and the body: a payload
\* whose script runs, one whose script fails, or no JSON payload at all.
Requests ==
    [method : {"POST", "GET"}, path : {"/text-query", "/"},
     header : {None, Some("a"), Some("b")},
     body : {"script", "failing script", "not json"}]

\* The response of the handler to req, and whether db.run_script ran.
Respond(req, auth) ==
    IF req.method = "POST" /\ req.path = "/text-query" THEN
        IF auth.some /\ ~req.header.some THEN [status |-> 401, ran |-> FALSE]
        ELSE IF auth.some /\ auth.val # req.header.val
             THEN [status |-> 401, ran |-> FALSE]
        ELSE IF req.body = "not json" THEN [status |-> 400, ran |-> FALSE]
        ELSE IF req.body = "script" THEN [status |-> 200, ran |-> TRUE]
        ELSE [status |-> 400, ran |-> TRUE]
    ELSE IF req.method = "GET" /\ req.path = "/" THEN [status |-> 200, ran |-> FALSE]
    ELSE [status |-> 404, ran |-> FALSE]

ServerInit ==
    /\ srv = "start"
    /\ bind \in BindAddrs
    /\ cozo_auth \in EnvValues
    /\ auth_str = None
    /\ exit_code = -1
    /\ served = <<>>
    /\ expr = N /\ sctx = UnitExprCtx /\ pc = "off"
    /\ EvalOff
    /\ ChainIdle

\* main up to start_server: exit(1) on a non-loopback address without
\* COZO_AUTH; a panic (status 101) when the database cannot be built.
Main ==
    /\ srv = "start"
    /\ auth_str' = EnvVar(cozo_auth)
    /\ \E db_built \in BOOLEAN :
          IF bind # Loopback /\ ~EnvVar(cozo_auth).some
          THEN srv' = "exited" /\ exit_code' = 1
          ELSE IF ~db_built THEN srv' = "exited" /\ exit_code' = 101
          ELSE srv' = "listening" /\ exit_code' = -1
    /\ UNCHANGED <<expr, sctx, rctx, pc, pe, pe2, ie, opt, optpe, rv_opt, rv_pe,
                   rv_raw, direct, chainvars, bind, cozo_auth, served>>

\* The closure given to start_server answers one request.
HandleRequest ==
    /\ srv = "listening"
    /\ Len(served) < MaxRequests
    /\ \E req \in Requests :
          served' = Append(served, [req |-> req, resp |-> Respond(req, auth_str)])
    /\ UNCHANGED <<expr, sctx, rctx, pc, pe, pe2, ie, opt, optpe, rv_opt, rv_pe,
                   rv_raw, direct, chainvars, srv, bind, cozo_auth, auth_str,
                   exit_code>>

ServerNext ==
    \/ Main
    \/ HandleRequest

ServerSpec == ServerInit /\ [][ServerNext]_vars

----------------------------------------------------------------------------
(* Properties.                                                             *)

Done == pc = "done"

\* e is closed: no Variable, TableCol, TupleSetIdx or ApplyAgg node.
Closed(e) == ~HasTag(e, {"Variable", "TableCol", "TupleSetIdx", "ApplyAgg"})

\* Every application of a fixed-arity operator has that many arguments and
\* every And / Or / Coalesce has at least one.
RECURSIVE WellFormed(_)
WellFormed(e) ==
    /\ e.tag = "Apply" =>
           IF OpArity(e.op) = {} THEN Len(e.args) >= 1
           ELSE OpArity(e.op) = {Len(e.args)}
    /\ \A i \in 1..Len(Children(e)) : WellFormed(Children(e)[i])

\* The well-formed trees whose evaluation is wholly that of eval.rs: no
\* And / Or / Coalesce, IfExpr or SwitchExpr (these are evaluated by the
\* helpers of the op module) and no node of the optimizer's.
RECURSIVE NoLogicApply(_)
NoLogicApply(e) ==
    /\ ~(e.tag = "Apply" /\ e.op \in LogicOpNames)
    /\ \A i \in 1..Len(Children(e)) : NoLogicApply(Children(e)[i])

Core(e) ==
    /\ WellFormed(e)
    /\ NoLogicApply(e)
    /\ ~HasTag(e, {"IfExpr", "SwitchExpr"} \cup SpecializedNames)

\* Two row evaluations end alike: the same value, or both without a value.
SameOutcome(a, b) ==
    \/ a.st = "ok" /\ b.st = "ok" /\ a.out = b.out
    \/ a.st # "ok" /\ b.st # "ok"

\* The concatenation of a sequence of logs.
RECURSIVE Flatten(_)
Flatten(logs) == IF Len(logs) = 0 THEN <<>> ELSE Head(logs) \o Flatten(Tail(logs))

\* C1 -- Closed-form folding: for a closed expression (List and Dict
\* literals included) on which partial evaluation against the trivial
\* context does not fail, partial_eval returns Const(v) for some v and
\* row_eval(optimize_ops(e)) against the trivial row context returns v.
\* Stated for the expressions of Core.
C1_ClosedFormFolding ==
    (Done /\ Core(expr) /\ Closed(expr) /\ pe.st = "ok")
        => /\ IsConst(pe.out)
           /\ rv_opt.st = "ok"
           /\ rv_opt.out = pe.out.v

\* C2 -- Partial evaluation preserves semantics: with every variable of e
\* resolved by the symbolic context, when partial_eval(e) succeeds,
\* row_eval(optimize_ops(partial_eval(e))) ends as the direct evaluation of
\* e with its variables resolved does (same value, or failure); and
\* partial_eval does not fail when the direct evaluation succeeds.
\* Stated for the expressions of Core.
C2_PartialEvalPreservesSemantics ==
    (Done /\ Core(expr) /\ ~HasTag(Substitute(expr, sctx), {"Variable"}))
        => /\ pe.st = "ok" => SameOutcome(rv_pe, direct)
           /\ direct.st = "ok" => pe.st = "ok"

\* C3 -- Partial-eval idempotence: for an expression without variables, if
\* partial_eval(e) succeeds with tree t then partial_eval(t) succeeds and
\* returns exactly t.
\* Stated for the expressions of Core.
C3_PartialEvalIdempotent ==
    (Done /\ Core(expr) /\ ~HasTag(expr, {"Variable"}) /\ pe.st = "ok")
        => pe2.st = "ok" /\ pe2.out = pe.out

\* C4 -- Ordering of passes: for a closed e, if
\* row_eval(optimize_ops(partial_eval(e))) returns a value v then
\* interpret_eval(e) succeeds and returns v; interpret_eval returns the
\* value exactly when partial_eval yields a Const node and otherwise fails
\* with IncompleteEvaluation.
\* Stated for the expressions of Core.
C4_OrderingOfPasses ==
    (Done /\ Core(expr) /\ Closed(expr))
        => /\ rv_pe.st = "ok" => (ie.st = "ok" /\ ie.out = rv_pe.out)
           /\ ie.st = "ok" <=> (pe.st = "ok" /\ IsConst(pe.out))
           /\ (pe.st = "ok" /\ ~IsConst(pe.out))
                 => (ie.st = "err" /\ ie.err = "IncompleteEvaluation")

\* C5 -- Null strict propagation: for a generic Apply(op, args) whose
\* operator has non_null_args, in both partial_eval and row_eval, when the
\* evaluation of an argument yields Null (at whatever position, the
\* arguments before it having been evaluated) the result is Null
\* (Const(Null) in partial_eval) and op.eval is never called: the log of the
\* application is that of the arguments evaluated so far.
FirstNullPartial(args, ctx, i) ==
    /\ \A j \in 1..(i - 1) :
          /\ partial_eval(args[j], ctx).st = "ok"
          /\ ~IsConstNull(partial_eval(args[j], ctx).out)
    /\ partial_eval(args[i], ctx).st = "ok"
    /\ IsConstNull(partial_eval(args[i], ctx).out)

FirstNullRow(args, ctx, i) ==
    /\ \A j \in 1..(i - 1) :
          /\ row_eval(args[j], ctx).st = "ok"
          /\ row_eval(args[j], ctx).out # NullV
    /\ row_eval(args[i], ctx).st = "ok"
    /\ row_eval(args[i], ctx).out = NullV

C5_NullStrictPropagation ==
    (expr.tag = "Apply" /\ OpNonNullArgs(expr.op)) =>
        \A i \in 1..Len(expr.args) :
            /\ (/\ pe.st # "none"
                /\ OpArity(expr.op) = {Len(expr.args)}
                /\ FirstNullPartial(expr.args, sctx, i))
                  => /\ pe.st = "ok"
                     /\ pe.out = Const(NullV)
                     /\ pe.log = Flatten([j \in 1..i |->
                                             partial_eval(expr.args[j], sctx).log])
            /\ (rv_raw.st # "none" /\ FirstNullRow(expr.args, rctx, i))
                  => /\ rv_raw.st = "ok"
                     /\ rv_raw.out = NullV
                     /\ rv_raw.log = Flatten([j \in 1..i |->
                                                 row_eval(expr.args[j], rctx).log])

\* Witness of C5: slot + null, the Null in second position after an
\* argument that is not a constant, is Null in both evaluators.
C5_Witness ==
    /\ Done
    /\ expr = Apply("Add", <<Slot, N>>)
    /\ rctx = [slots |-> [k \in {0} |-> IntV(1)]]
    /\ pe = Ok(Const(NullV), <<>>)
    /\ rv_raw = Ok(NullV, <<EvResolve("slot", 0)>>)

\* C6 -- Three-valued short-circuiting: in row_eval of an optimized tree,
\* for And(a, b) with a evaluating to Bool(false), Or(a, b) with a
\* evaluating to Bool(true) and Coalesce(a, b) with a evaluating to a
\* non-Null value, b is never evaluated: the outcome and the log are those
\* of a alone, whatever b is.
FirstDecides(tag, v) ==
    \/ tag = "And" /\ v = BoolV(FALSE)
    \/ tag = "Or" /\ v = BoolV(TRUE)
    \/ tag = "Coalesce" /\ v # NullV

C6_ShortCircuit ==
    (rv_opt.st \notin {"none", "skipped"} /\ opt.out.tag \in LogicOpNames) =>
        LET a == row_eval(opt.out.a, rctx)
        IN (a.st = "ok" /\ FirstDecides(opt.out.tag, a.out)) => rv_opt = a

\* Witness of C6: false && <unresolved slot> is false, the slot never
\* looked up.
C6_Witness ==
    /\ Done
    /\ expr = Apply("And", <<F, Slot>>)
    /\ rctx = UnitRowCtx
    /\ opt.out = Bin("And", F, Slot)
    /\ rv_opt = Ok(BoolV(FALSE), <<>>)

\* C7 -- Three-valued logic results: for a non-empty list of operands drawn
\* from {true, false, null}, an n-ary And is false if any operand is false,
\* else null if any is null, else true (dually for Or), an n-ary Coalesce is
\* its first non-null operand or null; interpret_eval on the n-ary Apply and
\* row_eval on the chain produced by optimize_ops both give this result.
Logic3(e) ==
    /\ e.tag = "Apply"
    /\ e.op \in LogicOpNames
    /\ Len(e.args) >= 1
    /\ \A i \in 1..Len(e.args) : e.args[i] \in {T, F, N}

Expected3(e) ==
    LET has(x) == \E i \in 1..Len(e.args) : e.args[i] = x
        nonNull == {i \in 1..Len(e.args) : e.args[i] # N}
    IN CASE e.op = "And" ->
              IF has(F) THEN BoolV(FALSE) ELSE IF has(N) THEN NullV ELSE BoolV(TRUE)
         [] e.op = "Or" ->
              IF has(T) THEN BoolV(TRUE) ELSE IF has(N) THEN NullV ELSE BoolV(FALSE)
         [] e.op = "Coalesce" ->
              IF nonNull = {} THEN NullV
              ELSE e.args[CHOOSE i \in nonNull : \A j \in nonNull : i <= j].v

C7_ThreeValuedResults ==
    Logic3(expr) =>
        /\ ie.st # "none" => (ie.st = "ok" /\ ie.out = Expected3(expr))
        /\ rv_opt.st # "none" => (rv_opt.st = "ok" /\ rv_opt.out = Expected3(expr))

\* Witness of C7: null && false && null, folded to And(And(null, false),
\* null), is false either way.
C7_Witness ==
    /\ Done
    /\ expr = Apply("And", <<N, F, N>>)
    /\ opt.out = Bin("And", Bin("And", N, F), N)
    /\ ie = Ok(BoolV(FALSE), <<>>)
    /\ rv_opt.st = "ok" /\ rv_opt.out = BoolV(FALSE)

\* C8 -- Structural access: in partial_eval and in row_eval, FieldAcc(f, x)
\* over a realized value x yields the value under key f when x is a
\* dictionary containing f, Null when x is a dictionary without f or is
\* Null, and fails with FieldAccess otherwise; IdxAcc(i, x) yields the i-th
\* element of list x when i is in range, Null when out of range or x is
\* Null, and fails with IndexAccess otherwise.
AccessExpected(e, v) ==
    IF v = NullV THEN Ok(NullV, <<>>)
    ELSE IF e.tag = "FieldAcc" THEN
        IF v.t # "Dict" THEN Err("FieldAccess", <<>>)
        ELSE IF e.f \in DOMAIN v.d THEN Ok(v.d[e.f], <<>>)
        ELSE Ok(NullV, <<>>)
    ELSE
        IF v.t # "List" THEN Err("IndexAccess", <<>>)
        ELSE IF e.i < Len(v.l) THEN Ok(v.l[e.i + 1], <<>>)
        ELSE Ok(NullV, <<>>)

\* The outcome r is the expected one, a value (or a Const node when node).
AccessAgrees(r, want, node) ==
    /\ r.st = want.st
    /\ r.err = want.err
    /\ r.st = "ok" => r.out = (IF node THEN Const(want.out) ELSE want.out)

C8_StructuralAccess ==
    (expr.tag \in {"FieldAcc", "IdxAcc"}) =>
        LET a == partial_eval(expr.arg, sctx)
            r == row_eval(expr.arg, rctx)
        IN /\ (/\ pe.st # "none"
               /\ a.st = "ok" /\ IsConst(a.out)
               /\ (expr.tag = "FieldAcc" /\ expr.arg.tag = "Variable")
                     => ResolveTableCol(sctx, expr.arg.name, expr.f) = {})
                 => AccessAgrees(pe, AccessExpected(expr, a.out.v), TRUE)
           /\ (rv_raw.st # "none" /\ r.st = "ok")
                 => AccessAgrees(rv_raw, AccessExpected(expr, r.out), FALSE)
           /\ (rv_opt.st # "none" /\ r.st = "ok")
                 => AccessAgrees(rv_opt, AccessExpected(expr, r.out), FALSE)

\* Witness of C8: [0, 1][0] is 0 in both evaluators.
C8_Witness ==
    /\ Done
    /\ expr = IdxAcc(0, Const(ListV(<<IntV(0), IntV(1)>>)))
    /\ pe.st = "ok" /\ pe.out = I(0)
    /\ rv_raw.st = "ok" /\ rv_raw.out = IntV(0)
    /\ rv_opt.st = "ok" /\ rv_opt.out = IntV(0)

\* C9 -- Switch semantics: for a SwitchExpr with a constant scrutinee and
\* constant match expressions, partial_eval and row_eval select the branch
\* of the first arm (in list order) whose match value equals the scrutinee,
\* and the default (last) branch when no match value equals it.
ConstSwitch(e) ==
    /\ e.tag = "SwitchExpr"
    /\ IsConst(SwitchScrutinee(e.pairs))
    /\ \A k \in 1..Len(SwitchArms(e.pairs)) :
          /\ Closed(SwitchArms(e.pairs)[k][1])
          /\ interpret_eval(SwitchArms(e.pairs)[k][1], UnitExprCtx).st = "ok"

SelectedBranch(e) ==
    LET arms == SwitchArms(e.pairs)
        hits == {k \in 1..Len(arms) :
                    interpret_eval(arms[k][1], UnitExprCtx).out
                        = SwitchScrutinee(e.pairs).v}
    IN IF hits = {} THEN SwitchDefault(e.pairs)
       ELSE arms[CHOOSE k \in hits : \A j \in hits : k <= j][2]

C9_SwitchSemantics ==
    ConstSwitch(expr) =>
        /\ pe.st # "none" => (pe.st = "ok" /\ pe.out = SelectedBranch(expr))
        /\ rv_opt.st # "none" =>
              (rv_opt.st = "ok" /\ rv_opt.out = SelectedBranch(expr).v)
        /\ rv_raw.st # "none" =>
              (rv_raw.st = "ok" /\ rv_raw.out = SelectedBranch(expr).v)

\* Witness of C9: switch 1 {1 => arm 1, 1 => arm 2, .. => default} takes
\* arm 1.
C9_Witness ==
    /\ Done
    /\ expr = SwitchOf(I(1), <<I(1), I(1)>>)
    /\ pe.st = "ok" /\ pe.out = Txt(1)
    /\ rv_opt.st = "ok" /\ rv_opt.out = TextV(<<1>>)


\* C10 -- optimize_ops is infallible: for every expression tree it returns
\* an expression and never panics.
C10_OptimizeOpsInfallible ==
    opt.st # "none" => opt.st = "ok"

\* e is in post-optimize form: no node of e, at any depth, is a generic
\* Apply whose operator name has a specialized node.
RECURSIVE PostOptimize(_)
PostOptimize(e) ==
    /\ ~(e.tag = "Apply" /\ e.op \in SpecializedNames)
    /\ \A i \in 1..Len(Children(e)) : PostOptimize(Children(e)[i])

C12_OptimizerPreservesSemantics ==
    (/\ Done
     /\ ~HasTag(expr, {"Variable", "TableCol", "ApplyAgg"})
     /\ opt.st = "ok")
        => SameOutcome(rv_opt, rv_raw)

\* C13 -- Errors are reported as data: row_eval returns a value or an
\* EvalError and never ends the process, on the tree as given, on the
\* optimized tree and on the optimized partial result; a Variable yields
\* UnresolvedVariable and a TableCol yields UnresolveTableCol.
C13_ErrorsAsData ==
    /\ rv_raw.st # "panic"
    /\ rv_opt.st # "panic"
    /\ rv_pe.st # "panic"
    /\ (rv_raw.st # "none" /\ expr.tag = "Variable")
          => (rv_raw.st = "err" /\ rv_raw.err = "UnresolvedVariable")
    /\ (rv_raw.st # "none" /\ expr.tag = "TableCol")
          => (rv_raw.st = "err" /\ rv_raw.err = "UnresolveTableCol")

\* The generic Apply e cannot be folded in ctx: the arity check passes,
\* every argument partially evaluates, at least one to a node that is not
\* a Const, and no null short-circuit applies.
ResidualCase(e, ctx) ==
    /\ e.tag = "Apply"
    /\ e.op \notin LogicOpNames
    /\ OpArity(e.op) \in {{}, {Len(e.args)}}
    /\ \A i \in 1..Len(e.args) : partial_eval(e.args[i], ctx).st = "ok"
    /\ \E i \in 1..Len(e.args) : ~IsConst(partial_eval(e.args[i], ctx).out)
    /\ ~(OpNonNullArgs(e.op)
         /\ \E i \in 1..Len(e.args) : IsConstNull(partial_eval(e.args[i], ctx).out))

\* C14 -- Residual Apply keeps all arguments: when partial_eval of a
\* generic Apply(op, args) cannot fold, it returns Apply(op, args') with
\* args' as long as args and args'[i] the partial evaluation of args[i] at
\* every position, Const and residual arguments alike, in order.
C14_ResidualApplyKeepsArgs ==
    (pe.st # "none" /\ ResidualCase(expr, sctx))
        => /\ pe.st = "ok"
           /\ pe.out = Apply(expr.op, [i \in 1..Len(expr.args) |->
                                          partial_eval(expr.args[i], sctx).out])

\* C15 -- partial_eval terminates: for every finite expression and every
\* symbolic context, one whose resolve(name) returns an expression holding
\* a FieldAcc over the same name included, the invocation ends by
\* returning; its nested calls never go on until the stack is exhausted.
C15_PartialEvalTerminates ==
    pc # "overflow"

\* The header of req is absent or differs from the value of COZO_AUTH.
Unauthorized(req, env) ==
    \/ ~req.header.some
    \/ ~(env.unicode /\ req.header.val = env.val)

\* The gate for the environment env: every POST /text-query with a missing
\* or different header is answered 401 without db.run_script.
GateHolds(env) ==
    \A i \in 1..Len(served) :
        (/\ served[i].req.method = "POST"
         /\ served[i].req.path = "/text-query"
         /\ Unauthorized(served[i].req, env))
            => (served[i].resp.status = 401 /\ ~served[i].resp.ran)

\* C16 -- Server authentication gate: when COZO_AUTH is set, every POST
\* /text-query request whose x-cozo-auth header is absent or differs from
\* COZO_AUTH is answered 401 and db.run_script is not invoked for it; and
\* the server never listens on an address other than 127.0.0.1 unless
\* COZO_AUTH is set: it exits with status 1 instead.
C16_ServerAuthGate ==
    /\ cozo_auth.set => GateHolds(cozo_auth)
    /\ (srv = "listening" /\ bind # Loopback) => cozo_auth.set
    /\ (srv \notin {"off", "start"} /\ bind # Loopback /\ ~cozo_auth.set)
          => (srv = "exited" /\ exit_code = 1)

\* The gate as it holds: for COZO_AUTH set to valid Unicode text.
AuthGateWhenUnicode ==
    /\ (cozo_auth.set /\ cozo_auth.unicode) => GateHolds(cozo_auth)
    /\ (srv = "listening" /\ bind # Loopback) => (cozo_auth.set /\ cozo_auth.unicode)
    /\ (srv \notin {"off", "start"} /\ bind # Loopback /\ ~cozo_auth.set)
          => (srv = "exited" /\ exit_code = 1)

====
